---- MODULE Spec2Model ----
(***************************************************************************)
(* Line-oriented diff / patch engine of wasm-tools:                        *)
(*   src/wasm-tools/src/diff/main.c   (parse_lines, lcs_length, print_diff) *)
(*   src/wasm-tools/src/patch/main.c  (parse_lines, parse_hunk_header,      *)
(*                                     apply_patch)                         *)
(* A text is a sequence of one-character strings; a line is a text without *)
(* line-feed.  C arrays are 0-based: the C element x[k] is kept at k + 1.  *)
(***************************************************************************)
EXTENDS Integers, Sequences, FiniteSets, TLC

VARIABLES
    argv,       \* the two text arguments of main: <<argv[1], argv[2]>>; the patch
                \* run of a round trip keeps the second text of its diff as argv[3]
    tool,       \* which run is modelled: "diff" then "patch", or "patch" alone
    pc,         \* position inside main / print_diff / apply_patch
    a,          \* diff: FileLines a (lines of argv[1]); patch: FileLines original
    b,          \* diff: FileLines b (lines of argv[2])
    dp,         \* diff: the LCS table, flat, dp[i * (n + 1) + j]
    bi,         \* diff: backtracking row index i
    bj,         \* diff: backtracking column index j
    ops,        \* diff: DiffOp array, ops[k + 1] is the C ops[k]; op_count = Len(ops)
    hunks,      \* diff: the locals of every hunk print_diff printed, in order
    stdout,     \* the lines printed by the running tool
    patch,      \* patch: FileLines patch (lines of argv[2])
    orig_idx,   \* patch: cursor in original
    patch_idx,  \* patch: cursor in patch
    result,     \* patch: FileLines result
    reads,      \* patch: the indices k of every read original->lines[k]
    status      \* exit status of main: -1 while running, then what main returns

vars == <<argv, tool, pc, a, b, dp, bi, bj, ops, hunks, stdout,
          patch, orig_idx, patch_idx, result, reads, status>>

----------------------------------------------------------------------------
(* Bounds of the model *)

\* longest input line sequence of a diff run
MaxLen == 5
\* longest original line sequence of a stand-alone patch run
MaxOrig == 2
\* longest patch (in lines) of a stand-alone patch run
MaxPatch == 3
\* longest input line sequence of a diff run over the wider vocabularies
MaxWords == 3
\* longest short text (in characters) given to main as argv[1]
MaxText == 4
\* longest text (in lines of the patch menu) given to main as argv[2]
MaxArgPatch == 1

(* Program constants *)
MAX_LINES == 10000

LF == "\n"
Digits == <<"0", "1", "2", "3", "4", "5", "6", "7", "8", "9">>

\* the line contents the inputs are built from
LineA == <<"a">>
LineB == <<"b">>
Lines == {LineA, LineB}

\* the line contents of the worked examples
LineC == <<"c">>
LineX == <<"x">>
LineOne   == <<"o", "n", "e">>
LineTwo   == <<"t", "w", "o">>
LineThree == <<"t", "h", "r", "e", "e">>
Letters == {LineA, LineB, LineC, LineX}
Words   == {LineOne, LineTwo, LineThree}

SeqsUpTo(S, n) == UNION {[1..k -> S] : k \in 0..n}

Max(x, y) == IF x > y THEN x ELSE y
Min(x, y) == IF x < y THEN x ELSE y

----------------------------------------------------------------------------
(* Text helpers: printf, strtok, strncmp, sscanf *)

\* printf("%d") of an integer
RECURSIVE DecNat(_)
DecNat(n) == IF n < 10 THEN <<Digits[n + 1]>>
             ELSE DecNat(n \div 10) \o <<Digits[(n % 10) + 1]>>
Dec(n) == IF n < 0 THEN <<"-">> \o DecNat(-n) ELSE DecNat(n)

\* the text a sequence of printed lines makes: every printf ends with \n
RECURSIVE TextOf(_)
TextOf(ls) == IF ls = <<>> THEN <<>> ELSE Head(ls) \o <<LF>> \o TextOf(Tail(ls))

\* strtok(.., "\n"): a token is a maximal run of characters other than
\* line-feed; it starts at a character that is not a line-feed and is the
\* first of the text or follows a line-feed, and ends before the next
\* line-feed or at the end of the text
IsTokenStart(text, k) == text[k] # LF /\ ~(k > 1 /\ text[k - 1] # LF)
TokenEnd(text, s) ==
    CHOOSE k \in s..Len(text) :
        /\ \A j \in s..k : text[j] # LF
        /\ ~(k < Len(text) /\ text[k + 1] # LF)

\* the start of every token strtok would return, in order
TokenStarts(text) ==
    LET AtStart(k) == IsTokenStart(text, k)
    IN  SelectSeq([k \in 1..Len(text) |-> k], AtStart)

\* a parse that stores only the tokens ended by a line-feed
ParseTerminatedLines(text) ==
    LET starts == TokenStarts(text)
        ended  == SelectSeq(starts, LAMBDA s : TokenEnd(text, s) < Len(text))
        count  == Min(Len(ended), MAX_LINES)
    IN  [k \in 1..count |-> SubSeq(text, ended[k], TokenEnd(text, ended[k]))]

\* parse_lines: while (line && f->count < MAX_LINES) { store; strtok(NULL) }
\* stores the tokens in order and stops at MAX_LINES of them
parse_lines(text) ==
    LET starts == TokenStarts(text)
        count  == Min(Len(starts), MAX_LINES)
    IN  [k \in 1..count |-> SubSeq(text, starts[k], TokenEnd(text, starts[k]))]

\* strncmp(line, prefix, Len(prefix)) == 0
HasPrefix(line, prefix) ==
    /\ Len(line) >= Len(prefix)
    /\ SubSeq(line, 1, Len(prefix)) = prefix

IsDigit(c) == \E d \in 1..10 : Digits[d] = c
DigitVal(c) == CHOOSE d \in 0..9 : Digits[d + 1] = c

\* isspace in the C locale: blank, \t, \n, \v, \f, \r
VT == ""
IsSpace(c) == c \in {" ", "\t", "\n", VT, "\f", "\r"}

\* sscanf white space directive (and the skip before %d): the position after
\* any run of white space
RECURSIVE SkipWs(_, _)
SkipWs(s, p) == IF p <= Len(s) /\ IsSpace(s[p]) THEN SkipWs(s, p + 1) ELSE p

\* the position after the run of digits that starts at p
RECURSIVE DigitsEnd(_, _)
DigitsEnd(s, p) == IF p <= Len(s) /\ IsDigit(s[p]) THEN DigitsEnd(s, p + 1) ELSE p

RECURSIVE StripZeros(_)
StripZeros(ds) == IF Len(ds) > 1 /\ ds[1] = "0" THEN StripZeros(Tail(ds)) ELSE ds

\* x <= y for digit strings of one length
RECURSIVE LexLeq(_, _)
LexLeq(x, y) ==
    IF x = <<>> THEN TRUE
    ELSE IF x[1] # y[1] THEN DigitVal(x[1]) < DigitVal(y[1])
    ELSE LexLeq(Tail(x), Tail(y))

\* the number written ds is at most the number written top (top without
\* leading zeros)
NumLeq(ds, top) ==
    LET x == StripZeros(ds)
    IN  Len(x) < Len(top) \/ (Len(x) = Len(top) /\ LexLeq(x, top))

\* the magnitudes of INT_MAX, INT_MIN, LONG_MAX and LONG_MIN as digit strings
IntMaxDigits  == <<"2", "1", "4", "7", "4", "8", "3", "6", "4", "7">>
IntMinDigits  == <<"2", "1", "4", "7", "4", "8", "3", "6", "4", "8">>
LongMaxDigits == <<"9", "2", "2", "3", "3", "7", "2", "0", "3", "6", "8", "5", "4",
                   "7", "7", "5", "8", "0", "7">>
LongMinDigits == <<"9", "2", "2", "3", "3", "7", "2", "0", "3", "6", "8", "5", "4",
                   "7", "7", "5", "8", "0", "8">>

\* the low 32 bits of the number written ds, as two 16-bit halves <<hi, lo>>
RECURSIVE Low32(_, _, _)
Low32(ds, hi, lo) ==
    IF ds = <<>> THEN <<hi, lo>>
    ELSE LET l == lo * 10 + DigitVal(ds[1])
         IN  Low32(Tail(ds), (hi * 10 + l \div 65536) % 65536, l % 65536)

\* the two's complement of a 32-bit pattern
Neg32(w) ==
    IF w[2] = 0 THEN <<(65536 - w[1]) % 65536, 0>> ELSE <<65535 - w[1], 65536 - w[2]>>

\* a 32-bit pattern read as an int
ToInt(w) == IF w[1] >= 32768 THEN (w[1] - 65536) * 65536 + w[2] ELSE w[1] * 65536 + w[2]

\* the int %d stores for a sign and a digit string: the number when it is an
\* int.  Beyond int the C standard leaves the stored value undefined; the
\* library converts with strtol (the number clamped to LONG_MIN..LONG_MAX, 64
\* bits) and keeps the low 32 bits
StoredInt(neg, ds) ==
    IF ~neg /\ ~NumLeq(ds, LongMaxDigits) THEN 0 - 1
    ELSE IF neg /\ ~NumLeq(ds, LongMinDigits) THEN 0
    ELSE ToInt(IF neg THEN Neg32(Low32(ds, 0, 0)) ELSE Low32(ds, 0, 0))

\* sscanf %d at position p: skips white space, takes an optional sign and
\* at least one digit.  ok = FALSE when no number is there, with eof = TRUE
\* when the input ended before any character of one (an input failure).
\* fits = FALSE when the number is not an int (val is then the value of
\* StoredInt, one of the values a library may store)
ScanInt(s, p) ==
    LET q    == SkipWs(s, p)
        neg  == q <= Len(s) /\ s[q] = "-"
        sgn  == q <= Len(s) /\ s[q] \in {"-", "+"}
        r    == IF sgn THEN q + 1 ELSE q
        e    == DigitsEnd(s, r)
        ds   == SubSeq(s, r, e - 1)
    IN  IF r < e
        THEN [ok |-> TRUE, eof |-> FALSE, pos |-> e, val |-> StoredInt(neg, ds),
              fits |-> NumLeq(ds, IF neg THEN IntMinDigits ELSE IntMaxDigits)]
        ELSE [ok |-> FALSE, eof |-> q > Len(s), pos |-> r, val |-> 0, fits |-> TRUE]

\* a literal character of the format at position p
Lit(s, p, c) == p <= Len(s) /\ s[p] = c

\* the return value of sscanf on an input failure before the first conversion
EOF == 0 - 1

\* the line ends before the first conversion of "@@ -%d" has a character to
\* read, and nothing before that end fails to match the format
InputEndsFirst(line) ==
    LET p1 == SkipWs(line, 3)
    IN  \/ Len(line) = 0
        \/ Len(line) = 1 /\ line[1] = "@"
        \/ /\ Lit(line, 1, "@") /\ Lit(line, 2, "@")
           /\ \/ p1 > Len(line)
              \/ Lit(line, p1, "-") /\ ScanInt(line, p1 + 1).eof

\* a header parse that stores the first number of the + range as old_start
SscanfNewFirst(line) ==
    LET none == [n |-> 0, old_start |-> 0, old_count |-> 0, new_start |-> 0,
                 new_count |-> 0, fits |-> TRUE]
        p1 == SkipWs(line, 3)
        v1 == ScanInt(line, p1 + 1)
        v2 == ScanInt(line, v1.pos + 1)
        p3 == SkipWs(line, v2.pos)
        v3 == ScanInt(line, p3 + 1)
        v4 == ScanInt(line, v3.pos + 1)
    IN  IF ~(Lit(line, 1, "@") /\ Lit(line, 2, "@") /\ Lit(line, p1, "-") /\ v1.ok)
        THEN [none EXCEPT !.n = IF InputEndsFirst(line) THEN EOF ELSE 0]
        ELSE IF ~(Lit(line, v1.pos, ",") /\ v2.ok)
        THEN [none EXCEPT !.n = 1, !.old_start = v1.val, !.fits = v1.fits]
        ELSE IF ~(Lit(line, p3, "+") /\ v3.ok)
        THEN [none EXCEPT !.n = 2, !.old_start = v1.val, !.old_count = v2.val,
                          !.fits = v1.fits]
        ELSE IF ~(Lit(line, v3.pos, ",") /\ v4.ok)
        THEN [none EXCEPT !.n = 3, !.old_start = v1.val, !.old_count = v2.val,
                          !.new_start = v3.val, !.fits = v1.fits]
        ELSE [n |-> 4, old_start |-> v3.val, old_count |-> v2.val,
              new_start |-> v1.val, new_count |-> v4.val, fits |-> v3.fits]

\* sscanf(line, "@@ -%d,%d +%d,%d @@", ...): the return value n (the number
\* of conversions made, EOF when the line ends before the first) and the
\* converted values (fields not converted are left as they were: 0 here,
\* never read by the caller); fits = FALSE when the number of old_start is
\* not an int
Sscanf(line) ==
    LET none == [n |-> 0, old_start |-> 0, old_count |-> 0, new_start |-> 0,
                 new_count |-> 0, fits |-> TRUE]
        p1 == SkipWs(line, 3)
        v1 == ScanInt(line, p1 + 1)
        v2 == ScanInt(line, v1.pos + 1)
        p3 == SkipWs(line, v2.pos)
        v3 == ScanInt(line, p3 + 1)
        v4 == ScanInt(line, v3.pos + 1)
    IN  IF ~(Lit(line, 1, "@") /\ Lit(line, 2, "@") /\ Lit(line, p1, "-") /\ v1.ok)
        THEN [none EXCEPT !.n = IF InputEndsFirst(line) THEN EOF ELSE 0]
        ELSE IF ~(Lit(line, v1.pos, ",") /\ v2.ok)
        THEN [none EXCEPT !.n = 1, !.old_start = v1.val, !.fits = v1.fits]
        ELSE IF ~(Lit(line, p3, "+") /\ v3.ok)
        THEN [none EXCEPT !.n = 2, !.old_start = v1.val, !.old_count = v2.val,
                          !.fits = v1.fits]
        ELSE IF ~(Lit(line, v3.pos, ",") /\ v4.ok)
        THEN [none EXCEPT !.n = 3, !.old_start = v1.val, !.old_count = v2.val,
                          !.new_start = v3.val, !.fits = v1.fits]
        ELSE [n |-> 4, old_start |-> v1.val, old_count |-> v2.val,
              new_start |-> v3.val, new_count |-> v4.val, fits |-> v1.fits]

\* parse_hunk_header: accepted when at least old_start and old_count convert
parse_hunk_header(line) == Sscanf(line).n >= 2

----------------------------------------------------------------------------
(* diff: lcs_length *)

\* those loops with the smaller of up and left in a cell of unequal lines
RECURSIVE LcsFillMin(_, _, _, _, _)
LcsFillMin(A, B, tbl, i, j) ==
    LET n == Len(B)
    IN  IF i > Len(A) THEN tbl
        ELSE IF j > n THEN LcsFillMin(A, B, tbl, i + 1, 1)
        ELSE LET up   == tbl[(i - 1) * (n + 1) + j]
                 left == tbl[i * (n + 1) + (j - 1)]
                 v    == IF A[i] = B[j]
                         THEN tbl[(i - 1) * (n + 1) + (j - 1)] + 1
                         ELSE IF up < left THEN up ELSE left
             IN  LcsFillMin(A, B, [tbl EXCEPT ![i * (n + 1) + j] = v], i, j + 1)

\* the loops of lcs_length from cell (i, j) on, row by row
RECURSIVE LcsFill(_, _, _, _, _)
LcsFill(A, B, tbl, i, j) ==
    LET n == Len(B)
    IN  IF i > Len(A) THEN tbl
        ELSE IF j > n THEN LcsFill(A, B, tbl, i + 1, 1)
        ELSE LET up   == tbl[(i - 1) * (n + 1) + j]
                 left == tbl[i * (n + 1) + (j - 1)]
                 v    == IF A[i] = B[j]
                         THEN tbl[(i - 1) * (n + 1) + (j - 1)] + 1
                         ELSE IF up > left THEN up ELSE left
             IN  LcsFill(A, B, [tbl EXCEPT ![i * (n + 1) + j] = v], i, j + 1)

\* the table lcs_length leaves in *dp (calloc zeroes it first)
lcs_length(A, B) ==
    LcsFill(A, B, [k \in 0..((Len(A) + 1) * (Len(B) + 1) - 1) |-> 0], 1, 1)

\* return (*dp)[m * (n + 1) + n]
lcs_return(A, B) == lcs_length(A, B)[Len(A) * (Len(B) + 1) + Len(B)]

----------------------------------------------------------------------------
(* diff: print_diff, backtracking *)

Keep == " "
Ins  == "+"
Del  == "-"

\* a backtracking step that takes the Delete when the two scores are equal
BacktrackOpDeleteOnTie(A, B, tbl, i, j) ==
    LET n == Len(B)
    IN  IF i > 0 /\ j > 0 /\ A[i] = B[j]
        THEN [op |-> Keep, ai |-> i - 1, bi |-> j - 1, i |-> i - 1, j |-> j - 1]
        ELSE IF j > 0 /\ (i = 0 \/ tbl[i * (n + 1) + (j - 1)] > tbl[(i - 1) * (n + 1) + j])
        THEN [op |-> Ins, ai |-> -1, bi |-> j - 1, i |-> i, j |-> j - 1]
        ELSE [op |-> Del, ai |-> i - 1, bi |-> -1, i |-> i - 1, j |-> j]

\* a backtracking step whose Keep stores the row index for both sides
BacktrackOpKeepRow(A, B, tbl, i, j) ==
    LET n == Len(B)
    IN  IF i > 0 /\ j > 0 /\ A[i] = B[j]
        THEN [op |-> Keep, ai |-> i - 1, bi |-> i - 1, i |-> i - 1, j |-> j - 1]
        ELSE IF j > 0 /\ (i = 0 \/ tbl[i * (n + 1) + (j - 1)] >= tbl[(i - 1) * (n + 1) + j])
        THEN [op |-> Ins, ai |-> -1, bi |-> j - 1, i |-> i, j |-> j - 1]
        ELSE [op |-> Del, ai |-> i - 1, bi |-> -1, i |-> i - 1, j |-> j]

\* a backtracking step that moves toward the smaller of the two scores
BacktrackOpTowardSmaller(A, B, tbl, i, j) ==
    LET n == Len(B)
    IN  IF i > 0 /\ j > 0 /\ A[i] = B[j]
        THEN [op |-> Keep, ai |-> i - 1, bi |-> j - 1, i |-> i - 1, j |-> j - 1]
        ELSE IF j > 0 /\ (i = 0 \/ tbl[i * (n + 1) + (j - 1)] <= tbl[(i - 1) * (n + 1) + j])
        THEN [op |-> Ins, ai |-> -1, bi |-> j - 1, i |-> i, j |-> j - 1]
        ELSE [op |-> Del, ai |-> i - 1, bi |-> -1, i |-> i - 1, j |-> j]

\* a backtracking step that tries the move along B before the diagonal
BacktrackOpLateralFirst(A, B, tbl, i, j) ==
    LET n == Len(B)
    IN  IF j > 0 /\ (i = 0 \/ tbl[i * (n + 1) + (j - 1)] >= tbl[(i - 1) * (n + 1) + j])
        THEN [op |-> Ins, ai |-> -1, bi |-> j - 1, i |-> i, j |-> j - 1]
        ELSE IF i > 0 /\ j > 0 /\ A[i] = B[j]
        THEN [op |-> Keep, ai |-> i - 1, bi |-> j - 1, i |-> i - 1, j |-> j - 1]
        ELSE [op |-> Del, ai |-> i - 1, bi |-> -1, i |-> i - 1, j |-> j]

\* a backtracking step whose Insert stores j, not j - 1
BacktrackOpInsertAtJ(A, B, tbl, i, j) ==
    LET n == Len(B)
    IN  IF i > 0 /\ j > 0 /\ A[i] = B[j]
        THEN [op |-> Keep, ai |-> i - 1, bi |-> j - 1, i |-> i - 1, j |-> j - 1]
        ELSE IF j > 0 /\ (i = 0 \/ tbl[i * (n + 1) + (j - 1)] >= tbl[(i - 1) * (n + 1) + j])
        THEN [op |-> Ins, ai |-> -1, bi |-> j, i |-> i, j |-> j - 1]
        ELSE [op |-> Del, ai |-> i - 1, bi |-> -1, i |-> i - 1, j |-> j]

\* one iteration of the backtracking loop at (i, j): the DiffOp it stores
\* and the new (i, j)
BacktrackOp(A, B, tbl, i, j) ==
    LET n == Len(B)
    IN  IF i > 0 /\ j > 0 /\ A[i] = B[j]
        THEN [op |-> Keep, ai |-> i - 1, bi |-> j - 1, i |-> i - 1, j |-> j - 1]
        ELSE IF j > 0 /\ (i = 0 \/ tbl[i * (n + 1) + (j - 1)] >= tbl[(i - 1) * (n + 1) + j])
        THEN [op |-> Ins, ai |-> -1, bi |-> j - 1, i |-> i, j |-> j - 1]
        ELSE [op |-> Del, ai |-> i - 1, bi |-> -1, i |-> i - 1, j |-> j]

DiffOpOf(r) == [op |-> r.op, ai |-> r.ai, bi |-> r.bi]

----------------------------------------------------------------------------
(* diff: print_diff, hunks.  Indices k, x, start_idx, end_idx are the C    *)
(* indices into ops (0-based, ops[op_count - 1] is the first operation).   *)

OldSide(o) == o.op = Keep \/ o.op = Del
NewSide(o) == o.op = Keep \/ o.op = Ins

\* a count that leaves out the test x <= start_idx of the counting loop
CountOldNoUpper(os, lo, hi) ==
    Cardinality({x \in lo..(Len(os) - 1) : OldSide(os[x + 1])})

\* number of x in lo..hi (C indices) whose operation is old-side / new-side
CountOld(os, lo, hi) == Cardinality({x \in lo..hi : OldSide(os[x + 1])})
CountNew(os, lo, hi) == Cardinality({x \in lo..hi : NewSide(os[x + 1])})

\* the hunk printed when a Keep follows a change run hunk_start..hunk_end
ClosedHunk(os, hunk_start, hunk_end) ==
    LET op_count       == Len(os)
        context_before == IF hunk_start < op_count - 1 THEN 3 ELSE 0
        context_after  == IF hunk_end > 0 THEN 3 ELSE 0
        s0             == hunk_start + context_before
        start_idx      == IF s0 >= op_count THEN op_count - 1 ELSE s0
        e0             == hunk_end - context_after
        end_idx        == IF e0 < 0 THEN 0 ELSE e0
        first          == os[start_idx + 1]
    IN  [start_idx |-> start_idx, end_idx |-> end_idx,
         a_start |-> IF first.ai >= 0 THEN first.ai + 1 ELSE 1,
         b_start |-> IF first.bi >= 0 THEN first.bi + 1 ELSE 1,
         a_count |-> CountOld(os, end_idx, start_idx),
         b_count |-> CountNew(os, end_idx, start_idx),
         hunk_start |-> hunk_start, hunk_end |-> hunk_end]

\* a last hunk that prints the open change run alone
RemainingHunkRunOnly(os, hunk_start, hunk_end) ==
    LET first == os[hunk_start + 1]
    IN  [start_idx |-> hunk_start, end_idx |-> hunk_end,
         a_start |-> IF first.ai >= 0 THEN first.ai + 1 ELSE 1,
         b_start |-> IF first.bi >= 0 THEN first.bi + 1 ELSE 1,
         a_count |-> CountOld(os, hunk_end, hunk_start),
         b_count |-> CountNew(os, hunk_end, hunk_start),
         hunk_start |-> hunk_start, hunk_end |-> hunk_end]

\* the hunk printed after the loop when a change run is still open
RemainingHunk(os, hunk_start, hunk_end) ==
    LET op_count == Len(os)
        first    == os[op_count]
    IN  [start_idx |-> op_count - 1, end_idx |-> 0,
         a_start |-> IF first.ai >= 0 THEN first.ai + 1 ELSE 1,
         b_start |-> IF first.bi >= 0 THEN first.bi + 1 ELSE 1,
         a_count |-> CountOld(os, 0, op_count - 1),
         b_count |-> CountNew(os, 0, op_count - 1),
         hunk_start |-> hunk_start, hunk_end |-> hunk_end]

\* a hunk loop that forgets the change run still open when the loop ends
RECURSIVE HunkLoopNoFlush(_, _, _, _, _)
HunkLoopNoFlush(os, k, hunk_start, hunk_end, acc) ==
    IF k < 0 THEN acc
    ELSE IF os[k + 1].op # Keep
         THEN HunkLoopNoFlush(os, k - 1, IF hunk_start < 0 THEN k ELSE hunk_start, k, acc)
         ELSE IF hunk_start >= 0
              THEN HunkLoopNoFlush(os, k - 1, -1, -1,
                                   Append(acc, ClosedHunk(os, hunk_start, hunk_end)))
              ELSE HunkLoopNoFlush(os, k - 1, hunk_start, hunk_end, acc)

\* the for loop over k = op_count - 1 .. 0 followed by the remaining hunk:
\* the hunks printed, in order
RECURSIVE HunkLoop(_, _, _, _, _)
HunkLoop(os, k, hunk_start, hunk_end, acc) ==
    IF k < 0
    THEN IF hunk_start >= 0
         THEN Append(acc, RemainingHunk(os, hunk_start, hunk_end))
         ELSE acc
    ELSE IF os[k + 1].op # Keep
         THEN HunkLoop(os, k - 1, IF hunk_start < 0 THEN k ELSE hunk_start, k, acc)
         ELSE IF hunk_start >= 0
              THEN HunkLoop(os, k - 1, -1, -1,
                            Append(acc, ClosedHunk(os, hunk_start, hunk_end)))
              ELSE HunkLoop(os, k - 1, hunk_start, hunk_end, acc)

FindHunks(os) == HunkLoop(os, Len(os) - 1, -1, -1, <<>>)

\* printf("@@ -%d,%d +%d,%d @@\n", a_start, a_count, b_start, b_count)
HunkHeaderLine(h) ==
    <<"@", "@", " ", "-">> \o Dec(h.a_start) \o <<",">> \o Dec(h.a_count)
    \o <<" ", "+">> \o Dec(h.b_start) \o <<",">> \o Dec(h.b_count)
    \o <<" ", "@", "@">>

\* the body line printed for one operation
OpLine(A, B, o) ==
    IF o.op = Keep THEN <<" ">> \o A[o.ai + 1]
    ELSE IF o.op = Del THEN <<"-">> \o A[o.ai + 1]
    ELSE <<"+">> \o B[o.bi + 1]

\* the body lines for x = start_idx down to end_idx
RECURSIVE HunkBody(_, _, _, _, _)
HunkBody(A, B, os, x, end_idx) ==
    IF x < end_idx THEN <<>>
    ELSE <<OpLine(A, B, os[x + 1])>> \o HunkBody(A, B, os, x - 1, end_idx)

HunkLines(A, B, os, h) ==
    <<HunkHeaderLine(h)>> \o HunkBody(A, B, os, h.start_idx, h.end_idx)

RECURSIVE AllHunkLines(_, _, _, _)
AllHunkLines(A, B, os, hs) ==
    IF hs = <<>> THEN <<>>
    ELSE HunkLines(A, B, os, Head(hs)) \o AllHunkLines(A, B, os, Tail(hs))

HeaderA == <<"-", "-", "-", " ", "a">>
HeaderB == <<"+", "+", "+", " ", "b">>

----------------------------------------------------------------------------
(* patch: apply_patch helpers *)

\* free_lines: every line is freed and the count set to 0
free_lines(f) == <<>>

\* if (result.count < MAX_LINES) result.lines[result.count++] = strdup(line)
AppendCapped(res, line) == IF Len(res) < MAX_LINES THEN Append(res, line) ELSE res

\* the cursor after while (orig_idx < limit && orig_idx < original->count)
\* { append; orig_idx++ } started at cursor idx
CopyEnd(original, idx, limit) == Max(idx, Min(limit, Len(original)))

\* the range of int
INT_MAX == 2147483647
INT_MIN == 0 - INT_MAX - 1

\* the values the limit old_start - 1 of line 69 can take after the header
\* parse h, with the cursor at idx and count lines in the original.  An
\* old_start above INT_MIN gives old_start - 1.  At INT_MIN the subtraction
\* overflows (undefined): the build compares with INT_MAX when it wraps and
\* with a value below every cursor when it does not.  When the number in the
\* header is not an int the value sscanf stored is any int: one limit stands
\* for every value that ends the loop at the same cursor
HunkLimits(h, idx, count) ==
    IF ~h.fits THEN idx..Max(idx, count)
    ELSE IF h.old_start = INT_MIN THEN {INT_MIN, INT_MAX}
    ELSE {h.old_start - 1}

\* the result after that loop: the lines the cursor passes are appended in
\* order, each only while result.count < MAX_LINES
CopyLines(original, res, idx, limit) ==
    LET end    == CopyEnd(original, idx, limit)
        passed == IF idx < end THEN SubSeq(original, idx + 1, end) ELSE <<>>
        all    == res \o passed
    IN  SubSeq(all, 1, Max(Len(res), Min(Len(all), MAX_LINES)))

\* the reads of a copy loop that does not test orig_idx < original->count
CopyReadsNoCount(original, res, idx, limit) ==
    idx..(Min(Max(idx, limit), idx + MAX_LINES - Len(res)) - 1)

\* the indices of original->lines read by that loop (a line is read only
\* when result has room for it)
CopyReads(original, res, idx, limit) ==
    idx..(Min(CopyEnd(original, idx, limit), idx + MAX_LINES - Len(res)) - 1)

\* a skip that knows only the --- header
RECURSIVE SkipMinusOnly(_, _)
SkipMinusOnly(p, idx) ==
    IF idx < Len(p) /\ HasPrefix(p[idx + 1], <<"-", "-", "-">>)
    THEN SkipMinusOnly(p, idx + 1)
    ELSE idx

\* the leading lines that begin with --- or +++
RECURSIVE SkipHeaderLines(_, _)
SkipHeaderLines(p, idx) ==
    IF idx < Len(p) /\ (HasPrefix(p[idx + 1], <<"-", "-", "-">>)
                        \/ HasPrefix(p[idx + 1], <<"+", "+", "+">>))
    THEN SkipHeaderLines(p, idx + 1)
    ELSE idx

\* char *pline = patch->lines[patch_idx]
pline == patch[patch_idx + 1]
InLoop == pc = "loop" /\ patch_idx < Len(patch)
IsHeaderLine(l)  == HasPrefix(l, <<"@", "@">>)
IsContextLine(l) == ~IsHeaderLine(l) /\ l[1] = " "
IsRemovedLine(l) == ~IsHeaderLine(l) /\ l[1] = "-"
IsAddedLine(l)   == ~IsHeaderLine(l) /\ l[1] = "+"
IsUnknownLine(l) == ~IsHeaderLine(l) /\ l[1] \notin {" ", "-", "+"}

\* the main loop of apply_patch from (patch_idx, orig_idx, result) on,
\* followed by the copy of the remaining original lines: the set of the
\* line sequences it can print (one, unless a header makes HunkLimits a choice)
RECURSIVE PatchLoop(_, _, _, _, _)
PatchLoop(original, p, pidx, oidx, res) ==
    IF ~(pidx < Len(p)) THEN {CopyLines(original, res, oidx, Len(original))}
    ELSE LET l == p[pidx + 1]
         IN  IF IsHeaderLine(l)
             THEN IF parse_hunk_header(l)
                  THEN UNION { PatchLoop(original, p, pidx + 1,
                                         CopyEnd(original, oidx, limit),
                                         CopyLines(original, res, oidx, limit)) :
                               limit \in HunkLimits(Sscanf(l), oidx, Len(original)) }
                  ELSE PatchLoop(original, p, pidx + 1, oidx, res)
             ELSE IF IsContextLine(l)
             THEN PatchLoop(original, p, pidx + 1, oidx + 1, AppendCapped(res, Tail(l)))
             ELSE IF IsRemovedLine(l)
             THEN PatchLoop(original, p, pidx + 1, oidx + 1, res)
             ELSE IF IsAddedLine(l)
             THEN PatchLoop(original, p, pidx + 1, oidx, AppendCapped(res, Tail(l)))
             ELSE PatchLoop(original, p, pidx + 1, oidx, res)

\* apply_patch(original, patch) as a whole: the line sequences it can print
apply_patch(original, p) == PatchLoop(original, p, SkipHeaderLines(p, 0), 0, <<>>)

----------------------------------------------------------------------------
(* Initial states *)

NoTable == <<>>

\* a diff run on two parsed inputs; its output is then given to patch
InitDiff ==
    /\ tool = "diff"
    /\ pc = "lcs"
    /\ a \in SeqsUpTo(Lines, MaxLen)
    /\ b \in SeqsUpTo(Lines, MaxLen)
    /\ argv = <<TextOf(a), TextOf(b)>>
    /\ dp = NoTable
    /\ bi = 0 /\ bj = 0
    /\ ops = <<>>
    /\ hunks = <<>>
    /\ stdout = <<>>
    /\ patch = <<>>
    /\ orig_idx = 0 /\ patch_idx = 0
    /\ result = <<>>
    /\ reads = {}
    /\ status = -1

\* a diff run on two parsed inputs over the wider vocabularies
InitWords ==
    /\ tool = "diff"
    /\ pc = "lcs"
    /\ \/ a \in SeqsUpTo(Letters, MaxWords) /\ b \in SeqsUpTo(Letters, MaxWords)
       \/ a \in SeqsUpTo(Words, MaxWords) /\ b \in SeqsUpTo(Words, MaxWords)
    /\ argv = <<TextOf(a), TextOf(b)>>
    /\ dp = NoTable
    /\ bi = 0 /\ bj = 0
    /\ ops = <<>>
    /\ hunks = <<>>
    /\ stdout = <<>>
    /\ patch = <<>>
    /\ orig_idx = 0 /\ patch_idx = 0
    /\ result = <<>>
    /\ reads = {}
    /\ status = -1

\* a header with a tab for the blank and an old_start that is not an int
HeaderTab ==
    <<"@", "@", "\t", "-", "4", "2", "9", "4", "9", "6", "7", "2", "9", "8", ",", "1">>
\* a header whose old_start is INT_MIN
HeaderIntMin ==
    <<"@", "@", " ", "-", "-", "2", "1", "4", "7", "4", "8", "3", "6", "4", "8", ",", "0">>

\* the patch lines a stand-alone patch run is built from
PatchMenu ==
    { HeaderA,
      <<"@", "@", " ", "-", "2", ",", "1", " ", "+", "2", ",", "1", " ", "@", "@">>,
      <<"@", "@", " ", "b", "o", "g", "u", "s", " ", "@", "@">>,
      <<" ">> \o LineA,
      <<"-">> \o LineB,
      <<"+">> \o LineB,
      <<"\\">> }

\* the patches with one header of which the copy limit is a choice: at most
\* one body line, the header, then body lines
EdgeHeaders == {HeaderTab, HeaderIntMin}
BodyMenu == { <<" ">> \o LineA, <<"-">> \o LineB, <<"+">> \o LineB }
EdgeHeaderPatches ==
    { pre \o <<h>> \o post : pre \in SeqsUpTo(BodyMenu, 1), h \in EdgeHeaders,
                              post \in SeqsUpTo(BodyMenu, MaxPatch - 2) }

\* a patch run on a parsed original and a parsed patch (apply_patch entered)
InitPatch ==
    /\ tool = "patch"
    /\ pc = "skip"
    /\ a \in SeqsUpTo(Lines, MaxOrig)
    /\ b = <<>>
    /\ dp = NoTable
    /\ bi = 0 /\ bj = 0
    /\ ops = <<>>
    /\ hunks = <<>>
    /\ stdout = <<>>
    /\ patch \in SeqsUpTo(PatchMenu, MaxPatch) \cup EdgeHeaderPatches
    /\ argv = <<TextOf(a), TextOf(patch)>>
    /\ orig_idx = 0 /\ patch_idx = 0
    /\ result = <<>>
    /\ reads = {}
    /\ status = -1

\* the characters short argument texts are built from
TextChars == {"a", "b", LF}
ShortTexts == SeqsUpTo(TextChars, MaxText)

\* the text of n lines "a", each ended by a line-feed
LinesOfA(n) == [k \in 1..(2 * n) |-> IF k % 2 = 1 THEN "a" ELSE LF]
\* a text with exactly MAX_LINES lines and one with a line more
FullText     == LinesOfA(MAX_LINES)
OverfullText == LinesOfA(MAX_LINES + 1)
\* a text of MAX_LINES lines followed by trailing content no line-feed ends
TrailingCapText == FullText \o <<"b">>

\* the texts given as argv[2]
ArgPatchTexts ==
    {TextOf(p) : p \in SeqsUpTo(PatchMenu, MaxArgPatch) \cup {<<h>> : h \in EdgeHeaders}}

\* the patches applied to the texts at the line cap: none, one added line,
\* and a hunk that adds a line after line MAX_LINES
CapPatchTexts ==
    { <<>>,
      TextOf(<< <<"+">> \o LineB >>),
      TextOf(<< HunkHeaderLine([a_start |-> MAX_LINES + 1, a_count |-> 0,
                                b_start |-> MAX_LINES + 1, b_count |-> 1]),
                <<"+">> \o LineB >>) }

\* either tool at the entry of main, with its two text arguments; the texts
\* at the line cap are given to patch only
InitMain ==
    /\ tool \in {"diff", "patch"}
    /\ pc = "main"
    /\ argv \in (ShortTexts \X ArgPatchTexts)
                \cup (IF tool = "patch"
                      THEN ({FullText, OverfullText} \X CapPatchTexts)
                           \cup {<<TrailingCapText, <<>>>>}
                      ELSE {})
    /\ a = <<>>
    /\ b = <<>>
    /\ dp = NoTable
    /\ bi = 0 /\ bj = 0
    /\ ops = <<>>
    /\ hunks = <<>>
    /\ stdout = <<>>
    /\ patch = <<>>
    /\ orig_idx = 0 /\ patch_idx = 0
    /\ result = <<>>
    /\ reads = {}
    /\ status = -1

----------------------------------------------------------------------------
(* main of either tool: the two parse_lines calls *)

\* diff main: parse_lines(argv[1], &a); parse_lines(argv[2], &b)
DiffMain ==
    /\ tool = "diff" /\ pc = "main"
    /\ a' = parse_lines(argv[1])
    /\ b' = parse_lines(argv[2])
    /\ pc' = "lcs"
    /\ UNCHANGED <<argv, tool, dp, bi, bj, ops, hunks, stdout, status,
                   patch, orig_idx, patch_idx, result, reads>>

\* patch main: parse_lines(argv[1], &original); parse_lines(argv[2], &patch)
PatchMain ==
    /\ tool = "patch" /\ pc = "main"
    /\ a' = parse_lines(argv[1])
    /\ patch' = parse_lines(argv[2])
    /\ pc' = "skip"
    /\ UNCHANGED <<argv, tool, b, dp, bi, bj, ops, hunks, stdout, status,
                   orig_idx, patch_idx, result, reads>>

----------------------------------------------------------------------------
(* diff: actions *)

diffVars  == <<dp, bi, bj, ops, hunks>>
patchVars == <<patch, orig_idx, patch_idx, result, reads>>

\* while (i > 0 || j > 0)
BacktrackMore(i, j) == ~(i <= 0 /\ j <= 0)

\* print_diff lines 64-75: lcs_length, then i = m, j = n
LcsLength ==
    /\ pc = "lcs"
    /\ dp' = lcs_length(a, b)
    /\ bi' = Len(a) /\ bj' = Len(b)
    /\ pc' = "backtrack"
    /\ UNCHANGED <<argv, tool, a, b, ops, hunks, stdout, status>>
    /\ UNCHANGED patchVars

\* one iteration of while (i > 0 || j > 0)
BacktrackStep ==
    /\ pc = "backtrack"
    /\ BacktrackMore(bi, bj)
    /\ LET r == BacktrackOp(a, b, dp, bi, bj)
       IN  /\ ops' = Append(ops, DiffOpOf(r))
           /\ bi' = r.i
           /\ bj' = r.j
    /\ UNCHANGED <<argv, tool, pc, a, b, dp, hunks, stdout, status>>
    /\ UNCHANGED patchVars

\* print_diff lines 98-181: free(dp), the two header lines, every hunk
PrintHunks ==
    /\ pc = "backtrack"
    /\ ~BacktrackMore(bi, bj)
    /\ dp' = NoTable
    /\ hunks' = FindHunks(ops)
    /\ stdout' = <<HeaderA, HeaderB>> \o AllHunkLines(a, b, ops, hunks')
    /\ pc' = "diffed"
    /\ UNCHANGED <<argv, tool, a, b, bi, bj, ops, status>>
    /\ UNCHANGED patchVars

\* print_diff lines 183-184: free(ops) and the return to main
FreeOps ==
    /\ tool = "diff" /\ pc = "diffed"
    /\ ops' = <<>>
    /\ pc' = "printed"
    /\ UNCHANGED <<argv, tool, a, b, dp, bi, bj, hunks, stdout, status>>
    /\ UNCHANGED patchVars

\* main lines 198-201: free_lines(&a), free_lines(&b), return 0
DiffReturn ==
    /\ tool = "diff" /\ pc = "printed"
    /\ a' = free_lines(a)
    /\ b' = free_lines(b)
    /\ status' = 0
    /\ pc' = "exit"
    /\ UNCHANGED <<argv, tool, dp, bi, bj, ops, hunks, stdout>>
    /\ UNCHANGED patchVars

\* patch is run on the first input of the diff and on the diff's output:
\* main parses both and enters apply_patch.  argv[3] keeps the second input
\* the diff was given
PatchDiffOutput ==
    /\ tool = "diff" /\ pc = "exit"
    /\ tool' = "patch"
    /\ argv' = <<argv[1], TextOf(stdout), argv[2]>>
    /\ a' = parse_lines(argv'[1])
    /\ patch' = parse_lines(argv'[2])
    /\ stdout' = <<>>
    /\ status' = -1
    /\ orig_idx' = 0 /\ patch_idx' = 0
    /\ result' = <<>>
    /\ reads' = {}
    /\ pc' = "skip"
    /\ UNCHANGED b
    /\ UNCHANGED diffVars

----------------------------------------------------------------------------
(* patch: actions of apply_patch *)

\* lines 51-59
SkipHeaders ==
    /\ pc = "skip"
    /\ patch_idx' = SkipHeaderLines(patch, patch_idx)
    /\ pc' = "loop"
    /\ UNCHANGED <<argv, tool, a, b, stdout, status, patch, orig_idx, result, reads>>
    /\ UNCHANGED diffVars

\* lines 64-78: a line that begins with @@
HunkHeader ==
    /\ InLoop /\ IsHeaderLine(pline)
    /\ IF parse_hunk_header(pline)
       THEN \E limit \in HunkLimits(Sscanf(pline), orig_idx, Len(a)) :
                /\ result' = CopyLines(a, result, orig_idx, limit)
                /\ orig_idx' = CopyEnd(a, orig_idx, limit)
                /\ reads' = reads \cup CopyReads(a, result, orig_idx, limit)
       ELSE UNCHANGED <<result, orig_idx, reads>>
    /\ patch_idx' = patch_idx + 1
    /\ UNCHANGED <<argv, tool, pc, a, b, stdout, status, patch>>
    /\ UNCHANGED diffVars

\* lines 80-88
ContextLine ==
    /\ InLoop /\ IsContextLine(pline)
    /\ result' = AppendCapped(result, Tail(pline))
    /\ orig_idx' = orig_idx + 1
    /\ patch_idx' = patch_idx + 1
    /\ UNCHANGED <<argv, tool, pc, a, b, stdout, status, patch, reads>>
    /\ UNCHANGED diffVars

\* lines 90-96
RemovedLine ==
    /\ InLoop /\ IsRemovedLine(pline)
    /\ orig_idx' = orig_idx + 1
    /\ patch_idx' = patch_idx + 1
    /\ UNCHANGED <<argv, tool, pc, a, b, stdout, status, patch, result, reads>>
    /\ UNCHANGED diffVars

\* lines 98-105
AddedLine ==
    /\ InLoop /\ IsAddedLine(pline)
    /\ result' = AppendCapped(result, Tail(pline))
    /\ patch_idx' = patch_idx + 1
    /\ UNCHANGED <<argv, tool, pc, a, b, stdout, status, patch, orig_idx, reads>>
    /\ UNCHANGED diffVars

\* lines 107-108
UnknownLine ==
    /\ InLoop /\ IsUnknownLine(pline)
    /\ patch_idx' = patch_idx + 1
    /\ UNCHANGED <<argv, tool, pc, a, b, stdout, status, patch, orig_idx, result, reads>>
    /\ UNCHANGED diffVars

\* lines 111-122: the remaining original lines are copied, the result is
\* printed
Finish ==
    /\ pc = "loop" /\ ~(patch_idx < Len(patch))
    /\ result' = CopyLines(a, result, orig_idx, Len(a))
    /\ orig_idx' = CopyEnd(a, orig_idx, Len(a))
    /\ reads' = reads \cup CopyReads(a, result, orig_idx, Len(a))
    /\ stdout' = result'
    /\ pc' = "done"
    /\ UNCHANGED <<argv, tool, a, b, patch, patch_idx, status>>
    /\ UNCHANGED diffVars

\* lines 124-125: free_lines(&result) and the return to main
FreeResult ==
    /\ tool = "patch" /\ pc = "done"
    /\ result' = free_lines(result)
    /\ pc' = "applied"
    /\ UNCHANGED <<argv, tool, a, b, stdout, status, patch, orig_idx, patch_idx, reads>>
    /\ UNCHANGED diffVars

\* main lines 140-143: free_lines(&original), free_lines(&patch), return 0
PatchReturn ==
    /\ tool = "patch" /\ pc = "applied"
    /\ a' = free_lines(a)
    /\ patch' = free_lines(patch)
    /\ status' = 0
    /\ pc' = "exit"
    /\ UNCHANGED <<argv, tool, b, stdout, orig_idx, patch_idx, result, reads>>
    /\ UNCHANGED diffVars

----------------------------------------------------------------------------
(* Specifications *)

Init == InitDiff

Next ==
    \/ LcsLength
    \/ BacktrackStep
    \/ PrintHunks
    \/ FreeOps
    \/ DiffReturn
    \/ PatchDiffOutput
    \/ SkipHeaders
    \/ HunkHeader
    \/ ContextLine
    \/ RemovedLine
    \/ AddedLine
    \/ Finish
    \/ FreeResult
    \/ PatchReturn

\* diff(A, B), then patch(A, the output of the diff)
Spec == Init /\ [][Next]_vars

NextDiff ==
    \/ LcsLength
    \/ BacktrackStep
    \/ PrintHunks
    \/ FreeOps
    \/ DiffReturn

\* diff(A, B) over the wider vocabularies
SpecWords == InitWords /\ [][NextDiff]_vars

\* the diff run with its backtracking loop running on: while the condition
\* i > 0 || j > 0 holds the next iteration is executed
SpecDiffFair == InitDiff /\ [][NextDiff]_vars /\ WF_vars(BacktrackStep)

NextPatch ==
    \/ SkipHeaders
    \/ HunkHeader
    \/ ContextLine
    \/ RemovedLine
    \/ AddedLine
    \/ UnknownLine
    \/ Finish
    \/ FreeResult
    \/ PatchReturn

\* patch(original, any patch)
SpecPatch == InitPatch /\ [][NextPatch]_vars

----------------------------------------------------------------------------
(* Reading a unified diff as the format defines it: the hunks of a text.   *)
(* Leading --- / +++ lines are skipped; a line that begins with @@ opens a *)
(* hunk; the lines that begin with ' ', '-' or '+' after it are its body;  *)
(* any other line ends the body.                                           *)

RECURSIVE ReadHunks(_, _, _, _)
ReadHunks(ls, k, open, acc) ==
    IF k > Len(ls) THEN acc
    ELSE IF IsHeaderLine(ls[k])
         THEN ReadHunks(ls, k + 1, TRUE,
                        Append(acc, [line |-> ls[k], hdr |-> Sscanf(ls[k]), body |-> <<>>]))
         ELSE IF open /\ ls[k][1] \in {" ", "-", "+"}
              THEN ReadHunks(ls, k + 1, TRUE,
                             [acc EXCEPT ![Len(acc)].body = Append(@, ls[k])])
              ELSE ReadHunks(ls, k + 1, FALSE, acc)

HunksOf(ls) == ReadHunks(ls, SkipHeaderLines(ls, 0) + 1, FALSE, <<>>)

\* line k of the text is a body line of a hunk whose header is accepted
InHunkBody(ls, k) ==
    \E h \in 1..(k - 1) :
        /\ IsHeaderLine(ls[h]) /\ parse_hunk_header(ls[h])
        /\ \A x \in (h + 1)..k : ~IsHeaderLine(ls[x]) /\ ls[x][1] \in {" ", "-", "+"}

\* number of body lines with one of the given prefixes
CountPrefix(body, cs) == Cardinality({k \in 1..Len(body) : body[k][1] \in cs})

\* number of context lines before the first / after the last changed line
RECURSIVE LeadingContext(_)
LeadingContext(body) ==
    IF body = <<>> \/ Head(body)[1] # " " THEN 0 ELSE 1 + LeadingContext(Tail(body))
RECURSIVE TrailingContext(_)
TrailingContext(body) ==
    IF body = <<>> \/ body[Len(body)][1] # " " THEN 0
    ELSE 1 + TrailingContext(SubSeq(body, 1, Len(body) - 1))

\* number of lines of A (of B) the edit script consumes before operation x
OldBefore(x) == Cardinality({y \in (x + 1)..(Len(ops) - 1) : ops[y + 1].op \in {Keep, Del}})
NewBefore(x) == Cardinality({y \in (x + 1)..(Len(ops) - 1) : ops[y + 1].op \in {Keep, Ins}})

\* the diff has printed its output (its lines and its script not yet freed)
Diffed == tool = "diff" /\ pc = "diffed"
\* a stand-alone or round-trip patch run has printed its result (its lines
\* not yet freed)
PatchDone == tool = "patch" /\ pc = "done"
\* apply_patch has returned to main: the next step is the return of main
PatchApplied == tool = "patch" /\ pc = "applied"
\* the run ended in failure without printing anything
FailedWithoutOutput == status # 0 /\ status # -1 /\ stdout = <<>>
\* the lines of B the diff of a round trip was given (b itself is freed when
\* the diff returns)
DiffB == parse_lines(argv[3])

----------------------------------------------------------------------------
(* Claims *)

\* C1: round-trip law: applying to A the diff printed for (A, B) yields
\* exactly the lines of B
C1_RoundTrip ==
    PatchDone => stdout = DiffB

\* C2: a patch with a hunk header that cannot be parsed fails: the run ends
\* in failure and no result text is printed
C2_MalformedHeaderFails ==
    [][(PatchApplied /\ \E k \in 1..Len(patch) :
                           IsHeaderLine(patch[k]) /\ ~parse_hunk_header(patch[k]))
       => FailedWithoutOutput']_vars

\* C3: a hunk whose old_start - 1 plus its context and delete entries exceeds
\* the original's line count makes the run fail without a result
C3_OutOfRangeFails ==
    [][(PatchApplied /\ \E k \in 1..Len(HunksOf(patch)) :
                           LET h == HunksOf(patch)[k]
                           IN  /\ h.hdr.n >= 2
                               /\ h.hdr.old_start + CountPrefix(h.body, {" ", "-"}) > Len(a) + 1)
       => FailedWithoutOutput']_vars

\* C4: strict verification: at every context or delete entry the entry's text
\* is compared with the original line at the cursor; on a mismatch the run
\* fails, and a context entry adds the original's line to the result
C4_StrictVerification ==
    [][(InLoop /\ InHunkBody(patch, patch_idx + 1) /\ orig_idx < Len(a)
        /\ (IsContextLine(pline) \/ IsRemovedLine(pline)))
       => IF a[orig_idx + 1] = Tail(pline)
          THEN IsContextLine(pline) => result' = Append(result, a[orig_idx + 1])
          ELSE status' # 0 /\ status' # -1 /\ stdout' = <<>>]_vars

\* C5: the hunks of a diff output appear in strictly increasing old_start
\* order and their old ranges [old_start, old_start + old_count) are disjoint
C5_MonotonicHunks ==
    Diffed =>
        LET hs == HunksOf(stdout)
        IN  \A i \in 1..Len(hs) : \A j \in 1..Len(hs) :
                i < j => /\ hs[i].hdr.old_start < hs[j].hdr.old_start
                         /\ hs[i].hdr.old_start + hs[i].hdr.old_count
                                <= hs[j].hdr.old_start

\* C6: in every printed hunk old_count is the number of context plus delete
\* body lines and new_count the number of context plus insert body lines
C6_CountConsistency ==
    Diffed =>
        LET hs == HunksOf(stdout)
        IN  /\ Len(hs) = Len(hunks)
            /\ \A i \in 1..Len(hs) :
                /\ hs[i].hdr.n = 4
                /\ hs[i].hdr.old_count = CountPrefix(hs[i].body, {" ", "-"})
                /\ hs[i].hdr.new_count = CountPrefix(hs[i].body, {" ", "+"})

\* a diff that printed a hunk closed by a Keep and a hunk after the loop,
\* with different old and new counts
C6_Witness ==
    /\ Diffed
    /\ \E i \in 1..Len(hunks) : hunks[i].hunk_end > 0 /\ hunks[i].a_count # hunks[i].b_count
    /\ \E i \in 1..Len(hunks) : hunks[i].hunk_end = 0

\* C7: old_start (new_start) of every printed hunk is the 1-based index in A
\* (in B) of the first old-side (new-side) line of the hunk, which is one more
\* than the number of old-side (new-side) operations before the hunk; with no
\* such line in the hunk this is the anchor of the insertion (deletion) point
C7_StartNumbers ==
    Diffed =>
        LET hs == HunksOf(stdout)
        IN  \A i \in 1..Len(hunks) :
                /\ hs[i].hdr.old_start = 1 + OldBefore(hunks[i].start_idx)
                /\ hs[i].hdr.new_start = 1 + NewBefore(hunks[i].start_idx)

\* C8: every printed hunk has at most 3 context lines before its first
\* changed line and at most 3 after its last changed line
C8_BoundedContext ==
    Diffed =>
        \A i \in 1..Len(HunksOf(stdout)) :
            /\ LeadingContext(HunksOf(stdout)[i].body) <= 3
            /\ TrailingContext(HunksOf(stdout)[i].body) <= 3

\* C9: change runs separated by 3 or fewer Keeps are printed in one hunk:
\* every Delete / Insert operation of the edit script is in exactly one hunk
C9_EachChangeInOneHunk ==
    Diffed =>
        \A x \in 0..(Len(ops) - 1) :
            ops[x + 1].op # Keep =>
                Cardinality({i \in 1..Len(hunks) :
                                hunks[i].end_idx <= x /\ x <= hunks[i].start_idx}) = 1

\* C10: the diff of A with itself prints the two header lines and no hunk,
\* and applying that output to A yields A
C10_IdentityDiff ==
    /\ (Diffed /\ a = b) => (stdout = <<HeaderA, HeaderB>> /\ hunks = <<>>)
    /\ (PatchDone /\ a = DiffB) => stdout = a

\* the identity diff of a text of several lines has been applied
C10_Witness ==
    /\ PatchDone /\ a = DiffB /\ Len(a) >= 2 /\ a[1] # a[2]
    /\ patch = <<HeaderA, HeaderB>>

\* the lines of a sequence, each with a one-character prefix
Prefixed(c, ls) == [k \in 1..Len(ls) |-> <<c>> \o ls[k]]

\* C11: the diff of the empty sequence with a non-empty B prints exactly one
\* hunk, with old_count = 0 and a body of all lines of B as inserts in order;
\* the diff of a non-empty A with the empty sequence prints exactly one hunk,
\* with new_count = 0 and a body of delete lines only
C11_Boundary ==
    Diffed =>
        LET hs == HunksOf(stdout)
        IN  /\ (a = <<>> /\ b # <<>>) =>
                    /\ Len(hs) = 1
                    /\ hs[1].hdr.n = 4 /\ hs[1].hdr.old_count = 0
                    /\ hs[1].body = Prefixed("+", b)
            /\ (a # <<>> /\ b = <<>>) =>
                    /\ Len(hs) = 1
                    /\ hs[1].hdr.n = 4 /\ hs[1].hdr.new_count = 0
                    /\ hs[1].body = Prefixed("-", a)

\* the diff of the empty sequence with a B of several different lines
C11_Witness ==
    Diffed /\ a = <<>> /\ Len(b) >= 3 /\ b[1] # b[2] /\ Len(HunksOf(stdout)) = 1

\* the edit script read forward, from ops[op_count - 1] down to ops[0]
ForwardScript == [k \in 1..Len(ops) |-> ops[Len(ops) + 1 - k]]

KeepOp(i, j) == [op |-> Keep, ai |-> i, bi |-> j]
DelOp(i)     == [op |-> Del, ai |-> i, bi |-> -1]
InsOp(j)     == [op |-> Ins, ai |-> -1, bi |-> j]

\* C12: for A = [a, b, c] and B = [a, x, c] the edit script read forward is
\* Keep(a), Delete(b), Insert(x), Keep(c) and the output is the one hunk
\* @@ -1,3 +1,3 @@ with body " a", "-b", "+x", " c"
C12_ReplaceInMiddle ==
    (Diffed /\ a = <<LineA, LineB, LineC>> /\ b = <<LineA, LineX, LineC>>) =>
        /\ ForwardScript = <<KeepOp(0, 0), DelOp(1), InsOp(1), KeepOp(2, 2)>>
        /\ stdout = <<HeaderA, HeaderB,
                      <<"@", "@", " ", "-", "1", ",", "3", " ", "+", "1", ",", "3",
                        " ", "@", "@">>,
                      <<" ", "a">>, <<"-", "b">>, <<"+", "x">>, <<" ", "c">>>>

\* that diff has been printed
C12_Witness ==
    Diffed /\ a = <<LineA, LineB, LineC>> /\ b = <<LineA, LineX, LineC>>
           /\ Len(hunks) = 1 /\ Len(stdout) = 7

\* C13: for A = [one, two] and B = [one, two, three] the output is the one
\* hunk @@ -1,2 +1,3 @@ with body " one", " two", "+three"
C13_AppendAtEnd ==
    (Diffed /\ a = <<LineOne, LineTwo>> /\ b = <<LineOne, LineTwo, LineThree>>) =>
        stdout = <<HeaderA, HeaderB,
                   <<"@", "@", " ", "-", "1", ",", "2", " ", "+", "1", ",", "3",
                     " ", "@", "@">>,
                   <<" ">> \o LineOne, <<" ">> \o LineTwo, <<"+">> \o LineThree>>

\* that diff has been printed
C13_Witness ==
    Diffed /\ a = <<LineOne, LineTwo>> /\ b = <<LineOne, LineTwo, LineThree>>
           /\ Len(hunks) = 1 /\ hunks[1].hunk_end = 0 /\ Len(stdout) = 6

\* C15: a hunk whose header declares more old or new lines than its body
\* has before the next header or the end of the patch makes the run fail
\* without a result
C15_ShortHunkFails ==
    [][(PatchApplied /\ \E k \in 1..Len(HunksOf(patch)) :
                           LET h == HunksOf(patch)[k]
                           IN  /\ h.hdr.n = 4
                               /\ \/ CountPrefix(h.body, {" ", "-"}) < h.hdr.old_count
                                  \/ CountPrefix(h.body, {" ", "+"}) < h.hdr.new_count)
       => FailedWithoutOutput']_vars

\* every subsequence of s, as a set of sequences
RECURSIVE Subseqs(_)
Subseqs(s) ==
    IF s = <<>> THEN {<<>>}
    ELSE LET front == Subseqs(SubSeq(s, 1, Len(s) - 1))
         IN  front \cup {Append(t, s[Len(s)]) : t \in front}

\* the length of a longest common subsequence of the first i lines of A and
\* the first j lines of B, by enumeration
LcsOf(A, i, B, j) ==
    LET common == Subseqs(SubSeq(A, 1, i)) \cap Subseqs(SubSeq(B, 1, j))
    IN  CHOOSE l \in 0..Min(i, j) :
            /\ \E s \in common : Len(s) = l
            /\ \A s \in common : Len(s) <= l

\* lcs_length has returned and backtracking has not started
LcsReturned == tool = "diff" /\ pc = "backtrack" /\ ops = <<>>

\* C18: when lcs_length returns, every cell dp[i*(n+1)+j] is the length of a
\* longest common subsequence of the first i lines of A and the first j lines
\* of B; row 0 and column 0 are 0, every other cell satisfies the recurrence,
\* and the value returned is the cell for (m, n)
C18_LcsTable ==
    LcsReturned =>
        LET m == Len(a)
            n == Len(b)
        IN  /\ DOMAIN dp = 0..((m + 1) * (n + 1) - 1)
            /\ \A i \in 0..m : \A j \in 0..n :
                   /\ dp[i * (n + 1) + j] = LcsOf(a, i, b, j)
                   /\ (i = 0 \/ j = 0) => dp[i * (n + 1) + j] = 0
                   /\ (i > 0 /\ j > 0) =>
                          dp[i * (n + 1) + j] =
                              IF a[i] = b[j]
                              THEN dp[(i - 1) * (n + 1) + (j - 1)] + 1
                              ELSE Max(dp[(i - 1) * (n + 1) + j], dp[i * (n + 1) + (j - 1)])
            /\ lcs_return(a, b) = dp[m * (n + 1) + n]
            /\ lcs_return(a, b) = LcsOf(a, m, b, n)

\* a table with a cell of unequal lines whose two neighbours differ
C18_Witness ==
    /\ LcsReturned
    /\ \E i \in 1..Len(a) : \E j \in 1..Len(b) :
           /\ a[i] # b[j]
           /\ dp[(i - 1) * (Len(b) + 1) + j] # dp[i * (Len(b) + 1) + (j - 1)]
    /\ dp[Len(a) * (Len(b) + 1) + Len(b)] >= 2

\* the backtracking loop of a diff run has ended
ScriptDone ==
    /\ tool = "diff"
    /\ \/ pc = "backtrack" /\ ~BacktrackMore(bi, bj)
       \/ pc = "diffed"

\* the operations of the forward script that touch A, and those that touch B
TouchesA(o) == o.op \in {Keep, Del}
TouchesB(o) == o.op \in {Keep, Ins}
ScriptOnA == SelectSeq(ForwardScript, TouchesA)
ScriptOnB == SelectSeq(ForwardScript, TouchesB)

\* replaying the forward script on A: copy A[ai] on Keep, drop on Delete,
\* add B[bi] on Insert
Replayed ==
    [k \in 1..Len(ScriptOnB) |->
        IF ScriptOnB[k].op = Keep THEN a[ScriptOnB[k].ai + 1] ELSE b[ScriptOnB[k].bi + 1]]

\* C19: read forward, the edit script mentions every index of A exactly once
\* in increasing order through its Keeps and Deletes, every index of B exactly
\* once in increasing order through its Keeps and Inserts, every Keep joins
\* equal lines, and replaying it on A gives B
C19_ScriptCoverage ==
    ScriptDone =>
        /\ [k \in 1..Len(ScriptOnA) |-> ScriptOnA[k].ai] = [k \in 1..Len(a) |-> k - 1]
        /\ [k \in 1..Len(ScriptOnB) |-> ScriptOnB[k].bi] = [k \in 1..Len(b) |-> k - 1]
        /\ \A k \in 1..Len(ops) :
               ops[k].op = Keep => a[ops[k].ai + 1] = b[ops[k].bi + 1]
        /\ Replayed = b

\* a finished script with all three operations whose Keeps join different
\* indices
C19_Witness ==
    /\ ScriptDone
    /\ \A c \in {Keep, Del, Ins} : \E k \in 1..Len(ops) : ops[k].op = c
    /\ \E k \in 1..Len(ops) : ops[k].op = Keep /\ ops[k].ai # ops[k].bi

\* how many operations of the script are c
CountOps(c) == Cardinality({k \in 1..Len(ops) : ops[k].op = c})

\* C20: the finished edit script has exactly L Keeps, m - L Deletes and
\* n - L Inserts, L being the longest-common-subsequence length of A and B;
\* a script that keeps any common subsequence s has (m - |s|) + (n - |s|)
\* Deletes and Inserts, never fewer
C20_Minimality ==
    ScriptDone =>
        LET m == Len(a)
            n == Len(b)
            L == LcsOf(a, m, b, n)
        IN  /\ CountOps(Keep) = L
            /\ CountOps(Del) = m - L
            /\ CountOps(Ins) = n - L
            /\ \A s \in Subseqs(a) \cap Subseqs(b) :
                   (m - Len(s)) + (n - Len(s)) >= CountOps(Del) + CountOps(Ins)

\* a finished script where the choice between Insert and Delete decided
\* how much could be kept
C20_Witness ==
    /\ ScriptDone
    /\ CountOps(Keep) >= 2 /\ CountOps(Del) >= 1 /\ CountOps(Ins) >= 1
    /\ CountOps(Keep) < Min(Len(a), Len(b))

NextMain ==
    \/ DiffMain
    \/ PatchMain
    \/ LcsLength
    \/ BacktrackStep
    \/ PrintHunks
    \/ FreeOps
    \/ DiffReturn
    \/ SkipHeaders
    \/ HunkHeader
    \/ ContextLine
    \/ RemovedLine
    \/ AddedLine
    \/ UnknownLine
    \/ Finish
    \/ FreeResult
    \/ PatchReturn

\* either tool run from its text arguments
SpecMain == InitMain /\ [][NextMain]_vars

\* main has parsed its arguments and not yet freed the lines
Parsed == pc \notin {"main", "exit"}

\* the number of lines of a text: one per line-feed and one more for
\* trailing content that no line-feed ends
LfCount(text) == Cardinality({p \in 1..Len(text) : text[p] = LF})
HasTrailingContent(text) == text # <<>> /\ text[Len(text)] # LF
LineCountOf(text) == LfCount(text) + (IF HasTrailingContent(text) THEN 1 ELSE 0)

\* the position of the i-th line-feed of a text; 0 for i = 0 and one past the
\* end for i beyond the last
LfPos(text, i) ==
    IF i = 0 THEN 0
    ELSE IF i > LfCount(text) THEN Len(text) + 1
    ELSE CHOOSE p \in 1..Len(text) :
             text[p] = LF /\ Cardinality({q \in 1..p : text[q] = LF}) = i

\* the text between the (i-1)-th and the i-th line-feed
LineBetween(text, i) == SubSeq(text, LfPos(text, i - 1) + 1, LfPos(text, i) - 1)

\* C14: an input text with more lines than MAX_LINES, or a patched result
\* (the original's lines plus the added minus the removed ones) of more than
\* MAX_LINES lines, makes the run fail without a result; the tool never goes
\* on with a truncated line sequence
C14_CapacityFails ==
    [][(PatchApplied /\ \/ LineCountOf(argv[1]) > MAX_LINES
                        \/ LineCountOf(argv[2]) > MAX_LINES
                        \/ LineCountOf(argv[1]) + CountPrefix(patch, {"+"})
                               - CountPrefix(patch, {"-"}) > MAX_LINES)
       => FailedWithoutOutput']_vars

\* C16: parse_lines splits at every line-feed: a text with k line-feeds and
\* non-empty trailing content gives k + 1 lines, the i-th being the text
\* between the (i-1)-th and the i-th line-feed (empty between two
\* consecutive line-feeds)
C16_SplitAtEveryLineFeed ==
    (Parsed /\ HasTrailingContent(argv[1])) =>
        /\ Len(a) = LfCount(argv[1]) + 1
        /\ \A i \in 1..(LfCount(argv[1]) + 1) : a[i] = LineBetween(argv[1], i)

\* C17: for a non-empty text t that does not end with a line-feed,
\* parse_lines(t) equals parse_lines(t + line-feed) and its last line is the
\* trailing content of t; the empty text gives the empty sequence
C17_TrailingNewlineInsensitive ==
    Parsed =>
        /\ HasTrailingContent(argv[1]) =>
               /\ a = parse_lines(argv[1] \o <<LF>>)
               /\ a # <<>>
               /\ a[Len(a)] = LineBetween(argv[1], LfCount(argv[1]) + 1)
        /\ argv[1] = <<>> => a = <<>>

\* a parsed text of two lines or more whose last line no line-feed ends
C17_Witness ==
    Parsed /\ HasTrailingContent(argv[1]) /\ LfCount(argv[1]) >= 1 /\ Len(a) >= 2

\* the operation a backtracking step has just stored
StoredOp == ops'[Len(ops')]
\* cell[i][j] of the table
Cell(i, j) == dp[i * (Len(b) + 1) + j]

\* C21: tie-break rule: a backtracking step at (i, j) with i > 0 and j > 0
\* stores Keep(i-1, j-1) whenever A[i-1] = B[j-1]; otherwise on an equal
\* score cell[i-1][j] = cell[i][j-1] it stores Insert(j-1), and it stores
\* Delete(i-1) only when cell[i-1][j] > cell[i][j-1] or j = 0
C21_TieBreak ==
    [][(tool = "diff" /\ pc = "backtrack" /\ Len(ops') = Len(ops) + 1) =>
           /\ (bi > 0 /\ bj > 0 /\ a[bi] = b[bj]) => StoredOp = KeepOp(bi - 1, bj - 1)
           /\ (bi > 0 /\ bj > 0 /\ a[bi] # b[bj] /\ Cell(bi - 1, bj) = Cell(bi, bj - 1))
                  => StoredOp = InsOp(bj - 1)
           /\ StoredOp.op = Del =>
                  /\ StoredOp = DelOp(bi - 1)
                  /\ bj = 0 \/ Cell(bi - 1, bj) > Cell(bi, bj - 1)
      ]_vars

\* an Insert has just been stored on an equal score of unequal lines
C21_Witness ==
    /\ tool = "diff" /\ pc = "backtrack" /\ ops # <<>>
    /\ ops[Len(ops)].op = Ins
    /\ bi > 0
    /\ a[bi] # b[bj + 1]
    /\ Cell(bi - 1, bj + 1) = Cell(bi, bj)
    /\ Cell(bi, bj) >= 1

\* A and B have no line in common
NoCommonLine == \A i \in 1..Len(a) : \A j \in 1..Len(b) : a[i] # b[j]

\* C22: edge cases of the edit script: for identical A and B it is made of
\* Keeps only; when A and B have no line in common it is, read forward, the
\* Delete of every line of A in order followed by the Insert of every line
\* of B in order
C22_EdgeScripts ==
    ScriptDone =>
        /\ a = b => ForwardScript = [k \in 1..Len(a) |-> KeepOp(k - 1, k - 1)]
        /\ NoCommonLine =>
               ForwardScript = [k \in 1..(Len(a) + Len(b)) |->
                                   IF k <= Len(a) THEN DelOp(k - 1)
                                   ELSE InsOp(k - Len(a) - 1)]

\* a finished script for two inputs of different lines, two on each side
C22_Witness ==
    /\ ScriptDone /\ NoCommonLine
    /\ Len(a) >= 2 /\ Len(b) >= 2 /\ a[1] # a[2] /\ b[1] # b[2]
    /\ Len(ops) = Len(a) + Len(b)

\* the lines seq[lo + 1] .. seq[hi] of a C array, i.e. the 0-based indices
\* lo .. hi - 1; empty when there is none
Slice(seq, lo, hi) == IF lo < hi THEN SubSeq(seq, lo + 1, hi) ELSE <<>>

\* C23: copying around hunks: at an accepted hunk header with old_start = s
\* the original lines from the cursor up to 0-based index s - 2 are appended
\* to the result and the cursor is s - 1 when the body starts; after the
\* last hunk every original line from the cursor to the end is appended
C23_CopyAroundHunks ==
    [][/\ (tool = "patch" /\ InLoop /\ IsHeaderLine(pline) /\ parse_hunk_header(pline)) =>
              LET s == Sscanf(pline).old_start
              IN  /\ orig_idx' + 1 = s
                  /\ result' = result \o Slice(a, orig_idx, orig_idx')
       /\ (tool = "patch" /\ pc = "loop" /\ pc' = "done") =>
              result' = result \o Slice(a, orig_idx, Len(a))
      ]_vars

\* the running patch is at a body line of a hunk with an accepted header
AtBodyEntry == tool = "patch" /\ InLoop /\ InHunkBody(patch, patch_idx + 1)

\* C24: frame of body entries: a delete entry advances the original cursor
\* by one and leaves the result unchanged; an insert entry appends its text
\* without the + to the result and leaves the original cursor unchanged
C24_BodyEntryFrame ==
    [][/\ (AtBodyEntry /\ IsRemovedLine(pline)) =>
              /\ orig_idx' = orig_idx + 1
              /\ result' = result
       /\ (AtBodyEntry /\ IsAddedLine(pline)) =>
              /\ result' = Append(result, Tail(pline))
              /\ orig_idx' = orig_idx
      ]_vars

\* C25: hunk body termination: a line that starts with none of ' ', '-',
\* '+' ends the body of the current hunk; a line with one of these prefixes
\* that follows it before the next hunk header, or that comes before the
\* first hunk header, changes neither the result nor the original cursor
C25_BodyTermination ==
    [][(/\ tool = "patch" /\ InLoop
        /\ IsContextLine(pline) \/ IsRemovedLine(pline) \/ IsAddedLine(pline)
        /\ ~InHunkBody(patch, patch_idx + 1))
       => (result' = result /\ orig_idx' = orig_idx)
      ]_vars

\* the number of maximal runs of consecutive non-Keep operations of the script
ChangeRuns ==
    Cardinality({k \in 1..Len(ops) :
                    ops[k].op # Keep /\ (k = Len(ops) \/ ops[k + 1].op = Keep)})

\* C26: conditional round trip: when the edit script of (A, B) has at most
\* one maximal run of non-Keep operations, at its start, in its middle or at
\* its end, applying to A the diff printed for (A, B) yields exactly B.
\* (A property of Spec for inputs this short; a diff output of more than
\* MAX_LINES lines is cut by the parse_lines of patch and breaks it.  The
\* script is freed when the diff returns: one hunk is printed per run, so
\* the patch run reads the number of runs from hunks.)
C26_SingleRunRoundTrip ==
    /\ [](Diffed => Len(hunks) = ChangeRuns)
    /\ []((PatchDone /\ Len(hunks) <= 1) => stdout = DiffB)
    /\ [][(PatchApplied /\ Len(hunks) <= 1) => status' = 0]_vars

\* C27: bounds safety of apply_patch: whatever the original and the patch
\* (hunks addressed or running past the end of the original, overlapping
\* hunks, body lines without header), every read original->lines[k] has
\* 0 <= k < original->count, even when the cursor orig_idx is past the count
C27_ReadsInBounds ==
    (tool = "patch" /\ pc # "exit") => \A k \in reads : 0 <= k /\ k < Len(a)

\* lines of the original have been read and the cursor has left the original
C27_Witness ==
    tool = "patch" /\ pc # "exit" /\ reads # {} /\ orig_idx > Len(a)

\* positions p < q of the forward script lie in one run of non-Keep operations
SameRun(p, q) == \A k \in p..q : ForwardScript[k].op # Keep

\* C28: deletes before inserts: read forward, inside every maximal run of
\* consecutive non-Keep operations every Delete comes before every Insert
C28_DeletesBeforeInserts ==
    ScriptDone =>
        \A p \in 1..Len(ops) : \A q \in (p + 1)..Len(ops) :
            SameRun(p, q) => ~(ForwardScript[p].op = Ins /\ ForwardScript[q].op = Del)

\* a finished script with a run of two Deletes and an Insert between Keeps
C28_Witness ==
    /\ ScriptDone
    /\ \E p \in 2..(Len(ops) - 3) :
           /\ ForwardScript[p - 1].op = Keep
           /\ ForwardScript[p].op = Del /\ ForwardScript[p + 1].op = Del
           /\ ForwardScript[p + 2].op = Ins
           /\ ForwardScript[p + 3].op = Keep

\* the <<old_count, new_start, new_count>> tried in place of a header's own
FieldChoices == {<<0, 0, 0>>, <<3, 2, 1>>, <<1, 3, 1>>, <<1, 2, 3>>}

\* the text of the old_start field of a header line "@@ -<old_start>,..."
OldStartText(l) ==
    LET comma == CHOOSE k \in 5..Len(l) : l[k] = "," /\ \A j \in 5..(k - 1) : l[j] # ","
    IN  SubSeq(l, 5, comma - 1)

\* a header line in the full form @@ -%d,%d +%d,%d @@ that is accepted
IsFullHeader(l) ==
    /\ IsHeaderLine(l) /\ parse_hunk_header(l) /\ Sscanf(l).n = 4
    /\ HasPrefix(l, <<"@", "@", " ", "-">>)

\* the lines that differ from l at most in old_count, new_start, new_count
LineVariants(l) ==
    IF IsFullHeader(l)
    THEN {l} \cup { <<"@", "@", " ", "-">> \o OldStartText(l) \o <<",">> \o Dec(f[1])
                    \o <<" ", "+">> \o Dec(f[2]) \o <<",">> \o Dec(f[3]) \o <<" ", "@", "@">> :
                    f \in FieldChoices }
    ELSE {l}

\* the patches that differ from p only in those fields of accepted headers
RECURSIVE HeaderVariants(_)
HeaderVariants(p) ==
    IF p = <<>> THEN {<<>>}
    ELSE {<<h>> \o t : h \in LineVariants(Head(p)), t \in HeaderVariants(Tail(p))}

\* C29: header fields ignored by the applier: every patch that differs from
\* the applied one only in the old_count, new_start and new_count of its
\* accepted hunk headers gives the same result on the same original (the
\* same possible results, where the copy limit of a header is a choice)
C29_HeaderFieldsIgnored ==
    PatchDone =>
        /\ stdout \in apply_patch(a, patch)
        /\ \A q \in HeaderVariants(patch) :
               /\ \A k \in 1..Len(q) : IsHeaderLine(q[k]) => parse_hunk_header(q[k]) = parse_hunk_header(patch[k])
               /\ apply_patch(a, q) = apply_patch(a, patch)

\* a finished run whose accepted header made the applier copy a line and
\* whose body changed the result
C29_Witness ==
    /\ PatchDone
    /\ \E k \in 1..Len(patch) : IsFullHeader(patch[k])
    /\ Cardinality(HeaderVariants(patch)) > 1
    /\ reads # {} /\ stdout # a

\* C30: backtracking terminates and stays inside its buffer: every step of
\* while (i > 0 || j > 0) decreases i + j by at least 1, i and j are never
\* negative, the loop ends at (0, 0), op_count never exceeds m + n (the ops
\* array has m + n + 1 entries) and every stored ai / bi other than -1 is an
\* index of A / B
C30_BacktrackBounded ==
    /\ [](tool = "diff" =>
            /\ bi >= 0 /\ bj >= 0
            /\ Len(ops) <= Len(a) + Len(b)
            /\ \A k \in 1..Len(ops) :
                   /\ ops[k].ai = -1 \/ (0 <= ops[k].ai /\ ops[k].ai < Len(a))
                   /\ ops[k].bi = -1 \/ (0 <= ops[k].bi /\ ops[k].bi < Len(b))
            /\ pc = "diffed" => (bi = 0 /\ bj = 0))
    /\ [][(tool = "diff" /\ pc = "backtrack" /\ ops' # ops)
              => (Len(ops') = Len(ops) + 1 /\ bi' + bj' <= bi + bj - 1)]_vars
    /\ ((tool = "diff" /\ pc = "backtrack") ~> (bi = 0 /\ bj = 0))

\* a run that filled m + n entries of the ops array
C30_Witness ==
    /\ Diffed /\ Len(a) >= 2 /\ Len(b) >= 2
    /\ Len(ops) = Len(a) + Len(b)
    /\ bi = 0 /\ bj = 0

====
